---- MODULE Spec2Model ----
(***************************************************************************)
(* A model of the shell of src/unnamed/part_000 (the final version of      *)
(* src/main.c): the tokenizer getcmd, the job list, useCommand/fg/cd and   *)
(* the SIGINT handler.                                                     *)
(*                                                                         *)
(* A line buffer is a sequence of one-character strings; C index k is      *)
(* element k+1.  The terminating '\0' of the buffer is implicit (index     *)
(* Len(buf)); a '\0' that strsep writes into the buffer is the value NUL.  *)
(* A char* into the buffer is its C offset, the null pointer is NULLP.     *)
(***************************************************************************)
EXTENDS Integers, Sequences, FiniteSets, TLC

\* ------------------------------------------------------------ constants
ARGS_SIZE == 30

INT32_MAX == 2147483647

NUL == "NUL"

NULLP == -1

\* An args slot that getcmd has not written: main's array is uninitialised
\* before the first line and holds the previous line's pointers afterwards.
STALE == -2

\* ------------------------------------------------------------- C strings
\* buffer[k] for 0 <= k <= strlen
CharAt(buf, k) == IF k >= 0 /\ k < Len(buf) THEN buf[k + 1] ELSE NUL

\* isspace(3) on the characters a line of the model can hold
IsSpace(c) == c \in {" ", "\t", "\n", "\r", "\f"}

\* the delimiters of strsep(&buffer, " \t")
IsDelim(c) == c \in {" ", "\t"}

\* first index >= k holding a delimiter or the end of the string
RECURSIVE ScanTo(_, _)
ScanTo(buf, k) ==
    IF CharAt(buf, k) = NUL \/ IsDelim(CharAt(buf, k)) THEN k
    ELSE ScanTo(buf, k + 1)

\* strsep(&p, " \t"): the token starts at p; the first delimiter at or after
\* p is overwritten by '\0' and p moves past it; with no delimiter left p
\* becomes NULL; a NULL p yields a NULL token
Strsep(buf, p) ==
    IF p = NULLP THEN [tok |-> NULLP, p |-> NULLP, buf |-> buf]
    ELSE LET k == ScanTo(buf, p) IN
         IF CharAt(buf, k) = NUL
         THEN [tok |-> p, p |-> NULLP, buf |-> buf]
         ELSE [tok |-> p, p |-> k + 1, buf |-> [buf EXCEPT ![k + 1] = NUL]]

\* strlen(token) > 0
NonEmpty(buf, tok) == CharAt(buf, tok) # NUL

\* strcmp(token, c) == 0 for a one-character string c
IsTok(buf, tok, c) == CharAt(buf, tok) = c /\ CharAt(buf, tok + 1) = NUL

\* the C string at offset tok, as a sequence of characters
RECURSIVE CStr(_, _)
CStr(buf, tok) ==
    IF CharAt(buf, tok) = NUL THEN << >>
    ELSE <<CharAt(buf, tok)>> \o CStr(buf, tok + 1)

\* --------------------------------------------------------------- getcmd
\* The backward scan for '&': the first '&' met from the end sets
\* background, is blanked and ends the scan; whitespace is skipped.
RECURSIVE ScanBack(_, _, _, _)
ScanBack(buf, bufferEnd, background, exit) ==
    IF ~exit /\ bufferEnd >= 0
       /\ (CharAt(buf, bufferEnd) = "&" \/ IsSpace(CharAt(buf, bufferEnd)))
    THEN IF CharAt(buf, bufferEnd) = "&"
         THEN ScanBack([buf EXCEPT ![bufferEnd + 1] = " "], bufferEnd - 1, TRUE, TRUE)
         ELSE ScanBack(buf, bufferEnd - 1, background, exit)
    ELSE [buf |-> buf, bufferEnd |-> bufferEnd, background |-> background]

\* The handling of a '>' token: the next strsep token, read through a copy
\* of the cursor, is the redirect target; the cursor itself is then advanced
\* by a second strsep over the same text, in which the first call has already
\* replaced the delimiter by '\0'.
OnRedirect(st) ==
    LET peek == Strsep(st.buf, st.p) IN
    IF peek.tok # NULLP
    THEN LET skip == Strsep(peek.buf, st.p) IN
         [st EXCEPT !.buf = skip.buf, !.p = skip.p,
                    !.outputRedirection = peek.tok]
    ELSE [st EXCEPT !.errs = Append(@, "Error parsing '>'")]

\* The handling of a '|' token
OnPipe(st) ==
    IF st.i = 0 \/ st.cmdPipeIndex > 0
    THEN [st EXCEPT !.errs = Append(@, "Error parsing '|'")]
    ELSE [st EXCEPT !.args[st.i] = NULLP, !.i = st.i + 1,
                    !.cmdPipeIndex = st.i + 1]

\* An ordinary token: args[i++] = token
OnWord(st, tok) == [st EXCEPT !.args[st.i] = tok, !.i = st.i + 1]

\* The tokenizing loop; ret = -1 while no return statement has been reached
RECURSIVE TokLoop(_)
TokLoop(st) ==
    LET s == Strsep(st.buf, st.p) IN
    IF s.tok = NULLP
    THEN [st EXCEPT !.args[st.i] = NULLP, !.ret = st.i]
    ELSE LET st1 == [st EXCEPT !.buf = s.buf, !.p = s.p] IN
         IF ~NonEmpty(s.buf, s.tok) THEN TokLoop(st1)
         ELSE IF st.i > ARGS_SIZE THEN [st1 EXCEPT !.ret = INT32_MAX]
         ELSE IF IsTok(s.buf, s.tok, ">") THEN TokLoop(OnRedirect(st1))
         ELSE IF IsTok(s.buf, s.tok, "|") THEN TokLoop(OnPipe(st1))
         ELSE TokLoop(OnWord(st1, s.tok))

\* getcmd(buffer, bufferEnd, args, &background, &outputRedirection,
\* &cmdPipeIndex) called as main calls it, with bufferEnd = strlen - 1;
\* args0 is the caller's array as the call finds it.  Slot ARGS_SIZE + 1 is
\* the word after the array.
getcmd(line, args0) ==
    LET sb == ScanBack(line, Len(line) - 1, FALSE, FALSE)
        st0 == [buf |-> sb.buf, p |-> 0, i |-> 0, args |-> args0,
                background |-> sb.background, outputRedirection |-> NULLP,
                cmdPipeIndex |-> -1, errs |-> << >>, ret |-> -1]
    IN  IF sb.bufferEnd < 0 THEN [st0 EXCEPT !.ret = 0]
        ELSE TokLoop(st0)

\* ------------------------------------------------------------- bounds
\* nodes malloc can hand out to the job list
MaxNodes == 3

\* processes the shell and its pipelines fork in one run
MaxProcs == 3

\* ------------------------------------------------------------- job list
NodeIds == 1 .. MaxNodes

\* the null node pointer
NIL == 0

\* a node that is not allocated
FreeNode == [used |-> FALSE, name |-> << >>, pid |-> 0, next |-> NIL]

\* malloc: some node that is not in use
NewNode(heap) == CHOOSE n \in NodeIds : ~heap[n].used /\ \A m \in NodeIds : ~heap[m].used => n <= m

\* the last node of the list that starts at cur (cur # NIL)
RECURSIVE LastNode(_, _)
LastNode(heap, cur) ==
    IF heap[cur].next # NIL THEN LastNode(heap, heap[cur].next) ELSE cur

\* addNode with the new node linked in at the head
addNodeAtHead(jl, name, pid) ==
    LET temp == NewNode(jl.heap)
        h1 == [jl.heap EXCEPT ![temp] = [used |-> TRUE, name |-> name,
                                          pid |-> pid, next |-> jl.head]]
    IN  [head |-> temp, heap |-> h1]

\* addNode(name, pid) on the list jl = [head, heap]
addNode(jl, name, pid) ==
    LET temp == NewNode(jl.heap)
        h1 == [jl.heap EXCEPT ![temp] = [used |-> TRUE, name |-> name,
                                          pid |-> pid, next |-> NIL]]
    IN  IF jl.head = NIL THEN [head |-> temp, heap |-> h1]
        ELSE [head |-> jl.head,
              heap |-> [h1 EXCEPT ![LastNode(h1, jl.head)].next = temp]]

\* the for loop of removeNode: for (i = 1; i < x && cur != NULL; ++i)
RECURSIVE RemoveWalk(_, _, _, _, _)
RemoveWalk(heap, i, x, prev, cur) ==
    IF i < x /\ cur # NIL
    THEN RemoveWalk(heap, i + 1, x, cur, heap[cur].next)
    ELSE [prev |-> prev, cur |-> cur]

\* removeNode with its walk counted from 0: it unlinks the node after the
\* x-th
removeNodeFromZero(jl, x) ==
    LET w == RemoveWalk(jl.heap, 0, x, NIL, jl.head) IN
    IF w.cur = NIL THEN [head |-> jl.head, heap |-> jl.heap, node |-> NIL]
    ELSE IF w.cur = jl.head
         THEN [head |-> jl.heap[w.cur].next, heap |-> jl.heap, node |-> w.cur]
         ELSE [head |-> jl.head,
               heap |-> [jl.heap EXCEPT ![w.prev].next = jl.heap[w.cur].next],
               node |-> w.cur]

\* removeNode(x): the list without its x-th node, and that node (NIL: none)
removeNode(jl, x) ==
    LET w == RemoveWalk(jl.heap, 1, x, NIL, jl.head) IN
    IF w.cur = NIL THEN [head |-> jl.head, heap |-> jl.heap, node |-> NIL]
    ELSE IF w.cur = jl.head
         THEN [head |-> jl.heap[w.cur].next, heap |-> jl.heap, node |-> w.cur]
         ELSE [head |-> jl.head,
               heap |-> [jl.heap EXCEPT ![w.prev].next = jl.heap[w.cur].next],
               node |-> w.cur]

\* the lines jobs() prints for the list starting at cur: [index, name up to
\* its first '\0']
RECURSIVE JobsLines(_, _, _)
JobsLines(heap, cur, index) ==
    IF cur = NIL THEN << >>
    ELSE <<[index |-> index, name |-> CStr(heap[cur].name, 0)]>>
         \o JobsLines(heap, heap[cur].next, index + 1)

\* jobs(params): the printed lines, or the complaint about arguments
jobs(jl, params) ==
    IF params # << >> THEN [err |-> "jobs: too many arguments", out |-> << >>]
    ELSE [err |-> "", out |-> JobsLines(jl.heap, jl.head, 1)]

\* --------------------------------------------------------------- strtol
\* A long is held as four 16-bit limbs, least significant first, so that no
\* intermediate value leaves the range of 32-bit integers.
DigitVal(c) ==
    CASE c = "0" -> 0 [] c = "1" -> 1 [] c = "2" -> 2 [] c = "3" -> 3
      [] c = "4" -> 4 [] c = "5" -> 5 [] c = "6" -> 6 [] c = "7" -> 7
      [] c = "8" -> 8 [] c = "9" -> 9 [] OTHER -> -1

\* acc * 10 + d on the magnitude; ovf is set once it no longer fits 64 bits
MulAdd(acc, d) ==
    LET t0 == acc.l[1] * 10 + d
        t1 == acc.l[2] * 10 + (t0 \div 65536)
        t2 == acc.l[3] * 10 + (t1 \div 65536)
        t3 == acc.l[4] * 10 + (t2 \div 65536)
    IN  [l |-> <<t0 % 65536, t1 % 65536, t2 % 65536, t3 % 65536>>,
         ovf |-> acc.ovf \/ (t3 \div 65536) > 0]

\* the digits of s from index k on (C offset), accumulated
RECURSIVE Digits(_, _, _)
Digits(s, k, acc) ==
    IF DigitVal(CharAt(s, k)) < 0 THEN acc
    ELSE Digits(s, k + 1, MulAdd(acc, DigitVal(CharAt(s, k))))

RECURSIVE SkipSpace(_, _)
SkipSpace(s, k) == IF IsSpace(CharAt(s, k)) THEN SkipSpace(s, k + 1) ELSE k

\* the low 32 bits of a magnitude, read as a signed int
Low32(l) ==
    IF l[2] >= 32768 THEN l[1] + 65536 * (l[2] - 65536) ELSE l[1] + 65536 * l[2]

\* (int) strtol(s, NULL, 10) where long has 64 bits and int 32: strtol
\* saturates at LONG_MAX / LONG_MIN, the cast keeps the low 32 bits
StrtolInt(s) ==
    LET k0 == SkipSpace(s, 0)
        neg == CharAt(s, k0) = "-"
        k1 == IF CharAt(s, k0) \in {"-", "+"} THEN k0 + 1 ELSE k0
        m == Digits(s, k1, [l |-> <<0, 0, 0, 0>>, ovf |-> FALSE])
        sat == m.ovf \/ m.l[4] >= 32768
        low == Low32(m.l)
    IN  IF sat THEN (IF neg THEN 0 ELSE -1)
        ELSE IF ~neg THEN low
        ELSE IF low = -INT32_MAX - 1 THEN low ELSE -low

\* ---------------------------------------------------------- the commands
T_cd == <<"c", "d">>

T_fg == <<"f", "g">>

T_pwd == <<"p", "w", "d">>

T_jobs == <<"j", "o", "b", "s">>

T_exit == <<"e", "x", "i", "t">>

T_echo == <<"e", "c", "h", "o">>

\* the pid getpid() returns in the interactive shell
ShellPid == 1

\* main's args array as a call of getcmd finds it
StaleArgs == [k \in 0 .. ARGS_SIZE + 1 |-> STALE]

\* the strings args[k], args[k+1], ... up to the first NULL slot
RECURSIVE ArgvFrom(_, _, _)
ArgvFrom(buf, args, k) ==
    IF k > ARGS_SIZE + 1 \/ args[k] = NULLP \/ args[k] = STALE THEN << >>
    ELSE <<CStr(buf, args[k])>> \o ArgvFrom(buf, args, k + 1)

\* no redirect target (outputRedirection == NULL)
NoRedir == <<"NULL">>

RedirOf(r) ==
    IF r.outputRedirection = NULLP THEN NoRedir
    ELSE <<"to">> \o CStr(r.buf, r.outputRedirection)

\* ------------------------------------------------------------ processes
\* What a forked copy of the shell still has to do: cmd.argv is the command
\* it runs itself, cmd.left the left-hand command of the pipeline it has to
\* set up first (pipe: cmdPipeIndex > 0), cmd.redir its outputRedirection.
\* Of an argv only what the copy will read is kept: the name, and the
\* parameters of the built-ins that look at them; fg stands as cd, with
\* which it shares its branch of isBuiltIn.  rd and wr name the pipe whose
\* read end and write end the process has open, by the number of the process
\* that called pipe() (0: none).
NoCmd == [argv |-> << >>, left |-> << >>, pipe |-> FALSE, redir |-> NoRedir]

Kept(argv) ==
    IF argv = << >> THEN << >>
    ELSE IF argv[1] \in {T_pwd, T_jobs, T_echo} THEN argv
    ELSE IF argv[1] = T_fg THEN <<T_cd>>
    ELSE <<argv[1]>>

\* the child useCommand forks for the parsed line r
OuterChild(r) ==
    LET l == ArgvFrom(r.buf, r.args, 0)
        rt == IF r.cmdPipeIndex > 0 THEN ArgvFrom(r.buf, r.args, r.cmdPipeIndex)
              ELSE << >>
    IN  [st |-> "forked", role |-> "outer",
         cmd |-> [argv |-> Kept(IF r.cmdPipeIndex > 0 THEN rt ELSE l),
                  left |-> IF r.cmdPipeIndex > 0 THEN Kept(l) ELSE << >>,
                  pipe |-> r.cmdPipeIndex > 0,
                  redir |-> RedirOf(r)],
         out |-> "tty", rd |-> 0, wr |-> 0, code |-> -1]

\* the grandchild an outer child forks for the left-hand command, after
\* dup2(fileDescriptors[1], fileno(stdout)); it is handed the same
\* outputRedirection as the right-hand command, and has both descriptors of
\* the pipe its parent c holds at the fork
LeftChild(c) ==
    [st |-> "forked", role |-> "left",
     cmd |-> [argv |-> c.cmd.left, left |-> << >>, pipe |-> FALSE,
              redir |-> c.cmd.redir],
     out |-> "pipe", rd |-> c.rd, wr |-> c.wr, code |-> -1]

\* the process has ended with status code (its descriptors are closed)
Exited(c, out, code) ==
    [c EXCEPT !.st = "zombie", !.cmd = NoCmd, !.out = "closed",
              !.rd = 0, !.wr = 0, !.code = code]

IsBuiltInName(cmd) == cmd \in {T_cd, T_fg, T_pwd, T_jobs, T_exit, T_echo}

\* isBuiltIn(*args, args + 1) returned true, then exit(0): cd and fg do
\* nothing here, pwd and jobs print, exit sends SIGTERM to the process group
\* (143: ended by it), echo with no parameter reads past the sentinel
BuiltIn(c, out, in) ==
    LET cmd == c.cmd.argv[1]
        params == Tail(c.cmd.argv)
    IN  IF cmd = T_exit THEN Exited(c, out, 143)
        ELSE IF cmd = T_echo /\ params = << >> /\ in.ub = "crash"
        THEN Exited(c, out, 139)
        ELSE Exited(c, out, 0)

\* runCmd(args, outputRedirection) in process c whose standard output is
\* out0 on entry.  in.open, in.dup, in.exec say whether open(), dup2() and
\* execvp() succeed; in.ub picks the outcome of strcmp on a NULL *args
\* (a fault, or no built-in matching and execvp failing).
runCmd(c, out0, in) ==
    IF c.cmd.redir # NoRedir /\ ~(in.open /\ in.dup)
    THEN Exited(c, out0, 127)
    ELSE LET out == IF c.cmd.redir # NoRedir THEN "file" ELSE out0 IN
         IF c.cmd.argv = << >>
         THEN Exited(c, out, IF in.ub = "crash" THEN 139 ELSE 127)
         ELSE IF IsBuiltInName(c.cmd.argv[1]) THEN BuiltIn(c, out, in)
         ELSE IF in.exec
              THEN [c EXCEPT !.st = "running", !.cmd = NoCmd, !.out = out]
              ELSE Exited(c, out, 127)

\* ------------------------------------------------------------ the lines
SP == <<" ">>

W_a == <<"a">>

W_b == <<"b">>

\* the tokens joined by the separator sep
RECURSIVE Join(_, _)
Join(toks, sep) ==
    IF toks = << >> THEN << >>
    ELSE IF Len(toks) = 1 THEN toks[1]
    ELSE toks[1] \o sep \o Join(Tail(toks), sep)

\* the lines typed at the prompt
ShellLines ==
    { W_a,                                                 \* a
      Join(<<W_a, <<"&">>>>, SP),                          \* a &
      Join(<<T_cd, <<"d">>>>, SP),                         \* cd d
      T_fg,                                                \* fg
      Join(<<T_fg, <<"2">>>>, SP),                         \* fg 2
      Join(<<T_fg, <<"4", "2", "9", "4", "9", "6", "7", "2", "9", "7">>>>, SP),
      Join(<<W_a, <<"|">>, W_b, <<">">>, <<"f">>>>, SP),   \* a | b > f
      T_exit }                                             \* exit

\* getcmd on each of them, as main calls it
Parsed == [l \in ShellLines |-> getcmd(l, StaleArgs)]

\* ---------------------------------------------------------------- state
VARIABLES
    pc,          \* where the shell process is: "l410", "l412", "l413" (main
                 \* before the loop), "prompt", "wait" (waitpid of
                 \* useCommand), "fgwait" (waitpid of fg), "dead"
    parent,      \* the global pid_t parent
    cwd,         \* the shell's working directory
    jl,          \* the job list: [head, heap]
    held,        \* the node fg has removed and not yet freed
    waitTarget,  \* the pid argument of the waitpid the shell is in
    procs,       \* the processes forked so far; procs[k] has pid ShellPid + k
    cause,       \* why the shell process ended
    ref,         \* the jobs added and not removed, as a plain sequence
    pstage,      \* ParseSpec: "ready" before the call of getcmd, "parsed"
                 \* after it, "used" once useCommand has been called
    line,        \* ParseSpec: the line getLine() returned
    args,        \* ParseSpec: main's args array when getcmd is called
    res          \* ParseSpec: what getcmd returned and left behind

vars == <<pc, parent, cwd, jl, held, waitTarget, procs, cause, ref,
          pstage, line, args, res>>

parseVars == <<pstage, line, args, res>>

Pid(k) == ShellPid + k

ShellInit ==
    /\ pc = "l410"
    /\ parent = 0
    /\ cwd = <<"/">>
    /\ jl = [head |-> NIL, heap |-> [n \in NodeIds |-> FreeNode]]
    /\ held = NIL
    /\ waitTarget = 0
    /\ procs = << >>
    /\ cause = ""
    /\ ref = << >>

ParseIdle ==
    /\ pstage = "idle"
    /\ line = << >>
    /\ args = StaleArgs
    /\ res = [ret |-> -1]

Init == ShellInit /\ ParseIdle

\* -------------------------------------------------------------- startup
\* signal(SIGINT, signalHandler)
InstallHandler ==
    /\ pc = "l410"
    /\ pc' = "l412"
    /\ UNCHANGED <<parent, cwd, jl, held, waitTarget, procs, cause, ref, parseVars>>

\* signal(SIGTSTP, SIG_IGN)
IgnoreTstp ==
    /\ pc = "l412"
    /\ pc' = "l413"
    /\ UNCHANGED <<parent, cwd, jl, held, waitTarget, procs, cause, ref, parseVars>>

\* parent = getpid(), and on to the first prompt
RecordParent ==
    /\ pc = "l413"
    /\ parent' = ShellPid
    /\ pc' = "prompt"
    /\ UNCHANGED <<cwd, jl, held, waitTarget, procs, cause, ref, parseVars>>

\* The shell process has ended: its memory (the job list, the directory it
\* was in) is gone with it
Gone ==
    /\ pc' = "dead"
    /\ cwd' = <<"/">>
    /\ jl' = [head |-> NIL, heap |-> [n \in NodeIds |-> FreeNode]]
    /\ held' = NIL
    /\ waitTarget' = 0
    /\ ref' = << >>

\* signalHandler(SIGINT) in the process whose getpid() is cur and whose copy
\* of the global parent is par: TRUE when it calls exit(0)
HandlerExits(cur, par) == par # cur

\* SIGINT is delivered to the shell process.  Before signal() has run the
\* default disposition ends it; signal() installs the handler with BSD
\* semantics, so a waitpid the handler interrupts is restarted.
SigintShell ==
    /\ pc # "dead"
    /\ IF pc = "l410"
       THEN Gone /\ cause' = "SIGINT, default disposition"
       ELSE IF HandlerExits(ShellPid, parent)
            THEN Gone /\ cause' = "exit(0) in signalHandler"
            ELSE UNCHANGED <<pc, cwd, jl, held, waitTarget, ref, cause>>
    /\ UNCHANGED <<parent, procs, parseVars>>

\* getline() finds the end of the input: exit(0) in getLine; the children
\* are no longer children of a shell
Eof ==
    /\ pc = "prompt"
    /\ Gone
    /\ cause' = "end of input"
    /\ procs' = << >>
    /\ UNCHANGED <<parent, parseVars>>

\* ---------------------------------------------------------- cd and fg
\* cd(params) in the shell process; chdirOk says whether chdir() succeeds
cd(params, dir, chdirOk) ==
    IF params = << >> THEN [cwd |-> dir, msg |-> ""]
    ELSE IF Len(params) > 1 THEN [cwd |-> dir, msg |-> "cd only accepts 1 argument"]
    ELSE IF chdirOk THEN [cwd |-> params[1], msg |-> ""]
    ELSE [cwd |-> dir, msg |-> "perror"]

\* the index fg works with, 0 standing for the refusal of a second argument
FgIndex(params) ==
    IF params = << >> THEN 1
    ELSE IF Len(params) > 1 THEN 0
    ELSE StrtolInt(params[1])

\* fg(params) up to its waitpid: the message printed, the list afterwards
\* and the node removed (NIL: fg has returned without waiting)
fg(params, list) ==
    LET index == FgIndex(params)
        rm == removeNode(list, index)
        same == [head |-> list.head, heap |-> list.heap]
    IN  IF Len(params) > 1
        THEN [msg |-> "fg only accepts 1 argument", index |-> 1, jl |-> same, node |-> NIL]
        ELSE IF index < 1
        THEN [msg |-> "fg only accepts positive indexes", index |-> index, jl |-> same, node |-> NIL]
        ELSE IF rm.node = NIL
        THEN [msg |-> "fg given invalid index", index |-> index, jl |-> same, node |-> NIL]
        ELSE [msg |-> "", index |-> index,
              jl |-> [head |-> rm.head, heap |-> rm.heap], node |-> rm.node]

\* the sequence s without its k-th element
RemoveAt(s, k) == SubSeq(s, 1, k - 1) \o SubSeq(s, k + 1, Len(s))

\* ----------------------------------------------------------- useCommand
\* useCommand forks only when the line is neither empty nor too long
Launches(r) == r.ret > 0 /\ r.ret <= ARGS_SIZE

\* what useCommand prints itself for the parsed line r
UseMsg(r) ==
    IF r.ret > ARGS_SIZE THEN "Arguments exceeded max size"
    ELSE IF r.ret <= 0 /\ r.background
    THEN "Command cannot run in background with no arguments"
    ELSE ""

\* chdir() succeeds or fails, fork() succeeds or fails
ShellInputs == [chdir : BOOLEAN, fork : BOOLEAN]

\* the inputs that matter for the parsed line r when fork() succeeds
InputsFor(r) ==
    {in \in ShellInputs :
        /\ in.fork
        /\ ~(Launches(r) /\ ArgvFrom(r.buf, r.args, 0)[1] = T_cd) => in.chdir}

\* the same with the failure of fork() among them
InputsWithForkFor(r) ==
    {in \in ShellInputs :
        /\ ~Launches(r) => in.fork
        /\ ~(Launches(r) /\ ArgvFrom(r.buf, r.args, 0)[1] = T_cd) => in.chdir}

\* useCommand(command, args, ...) in the shell process for the parsed line
\* r, up to its return or up to the waitpid it blocks in.  in.chdir says
\* whether chdir() succeeds, in.fork whether fork() does: when it fails
\* childPID is -1, which is not zero, and the parent branch is taken all
\* the same.  A run forks MaxProcs processes at most.
useCommand(r, in) ==
    LET argv == ArgvFrom(r.buf, r.args, 0)
        childPID == IF in.fork THEN Pid(Len(procs) + 1) ELSE -1
    IN
    IF ~Launches(r)
    THEN UNCHANGED <<pc, cwd, jl, held, waitTarget, procs, ref>>
    ELSE /\ in.fork => Len(procs) < MaxProcs
         /\ procs' = IF in.fork THEN Append(procs, OuterChild(r)) ELSE procs
         /\ IF argv[1] = T_cd
            THEN /\ cwd' = cd(Tail(argv), cwd, in.chdir).cwd
                 /\ UNCHANGED <<pc, jl, held, waitTarget, ref>>
            ELSE IF argv[1] = T_fg
            THEN LET f == fg(Tail(argv), jl) IN
                 /\ jl' = f.jl
                 /\ held' = f.node
                 /\ IF f.node = NIL
                    THEN UNCHANGED <<pc, waitTarget, ref>>
                    ELSE /\ pc' = "fgwait"
                         /\ waitTarget' = jl.heap[f.node].pid
                         /\ ref' = RemoveAt(ref, f.index)
                 /\ UNCHANGED cwd
            ELSE IF ~r.background
            THEN /\ pc' = "wait"
                 /\ waitTarget' = childPID
                 /\ UNCHANGED <<cwd, jl, held, ref>>
            ELSE /\ \E n \in NodeIds : ~jl.heap[n].used
                 /\ jl' = addNode(jl, r.buf, childPID)
                 /\ ref' = Append(ref, [name |-> r.buf, pid |-> childPID])
                 /\ UNCHANGED <<pc, cwd, held, waitTarget>>

\* One turn of main's loop from the prompt: getLine() returns the line l,
\* getcmd() parses it and useCommand() handles it.
UseLine(l, in) ==
    /\ pc = "prompt"
    /\ useCommand(Parsed[l], in)
    /\ UNCHANGED <<parent, cause, parseVars>>

\* ---------------------------------------------------------------- waitpid
\* the children of the shell that waitpid(t, ..) can still report on
Candidates(t) ==
    {k \in 1 .. Len(procs) :
        /\ procs[k].role = "outer" /\ procs[k].st # "reaped"
        /\ (t = -1 \/ Pid(k) = t)}

\* a waitpid that returns for a child whatever its state
ReportableAlways(k) == TRUE

\* waitpid(t, &status, WUNTRACED) may return for child k: a zombie, or a
\* stopped child whose stop has not been reported yet
Reportable(k) == procs[k].st \in {"zombie", "stopped"}

\* The waitpid the shell is blocked in returns: with ECHILD when there is no
\* child to wait for, else for a child that has changed state.  Then
\* useCommand frees the line, or fg frees the node it removed, and main
\* goes back to the prompt.
WaitReturn ==
    /\ pc \in {"wait", "fgwait"}
    /\ \/ Candidates(waitTarget) = {} /\ procs' = procs
       \/ \E k \in Candidates(waitTarget) :
            /\ Reportable(k)
            /\ procs' = [procs EXCEPT ![k].st =
                            IF @ = "zombie" THEN "reaped"
                            ELSE IF @ = "stopped" THEN "stoppedR" ELSE @,
                         ![k].code = -1]
    /\ pc' = "prompt"
    /\ waitTarget' = 0
    /\ IF pc = "fgwait"
       THEN /\ jl' = [jl EXCEPT !.heap[held] = FreeNode]
            /\ held' = NIL
       ELSE UNCHANGED <<jl, held>>
    /\ UNCHANGED <<parent, cwd, cause, ref, parseVars>>

\* ------------------------------------------------------- child processes
\* whether open(), dup2() and execvp() succeed, and what undefined behaviour
\* turns out to be
SysInputs == [open : BOOLEAN, dup : BOOLEAN, exec : BOOLEAN,
              ub : {"crash", "nomatch"}]

\* the inputs that matter to the forked copy c
SysInputsFor(c) ==
    {in \in SysInputs :
        /\ (c.cmd.redir = NoRedir => in.open /\ in.dup)
        /\ (~in.open => in.dup)
        /\ (c.cmd.argv = << >> \/ IsBuiltInName(c.cmd.argv[1]) => in.exec)
        /\ (~(c.cmd.argv = << >> \/ c.cmd.argv = <<T_echo>>) => in.ub = "crash")}

\* a kill that reaches the programs only and spares the copies of the shell
KillGroupSparesCopies(ps, surv) ==
    [k \in 1 .. Len(ps) |->
        IF ps[k].st = "running" /\ k \notin surv
        THEN [ps[k] EXCEPT !.st = "zombie", !.out = "closed",
                           !.rd = 0, !.wr = 0, !.code = 143]
        ELSE ps[k]]

\* kill(0, SIGTERM): every process of the group that still runs the shell's
\* code ends; a running program ends unless it is in surv (it handles or
\* ignores SIGTERM); for a stopped one the signal stays pending
KillGroup(ps, surv) ==
    [k \in 1 .. Len(ps) |->
        IF ps[k].st = "forked" THEN Exited(ps[k], ps[k].out, 143)
        ELSE IF ps[k].st = "running" /\ k \notin surv
        THEN Exited(ps[k], ps[k].out, 143)
        ELSE ps[k]]

\* The forked copy k of the shell runs the else branch of useCommand to its
\* end: for a pipeline pipe(), fork(), the dup2 calls and the one close(),
\* then runCmd up to
\* exit() or to a successful execvp().  The exit built-in takes the whole
\* process group, the interactive shell included, with it.
ChildRun(k, in) ==
    /\ pc # "dead"
    /\ k \in 1 .. Len(procs)
    /\ procs[k].st = "forked"
    /\ in \in SysInputsFor(procs[k])
    /\ procs[k].cmd.pipe => Len(procs) < MaxProcs
    /\ LET grand == procs[k].role = "outer" /\ procs[k].cmd.pipe
           \* after pipe(fileDescriptors): both ends are open
           c == IF grand THEN [procs[k] EXCEPT !.rd = k, !.wr = k] ELSE procs[k]
           \* after close(fileDescriptors[1])
           me == runCmd(IF grand THEN [c EXCEPT !.wr = 0] ELSE c, c.out, in)
           ps == IF grand THEN Append([procs EXCEPT ![k] = me], LeftChild(c))
                 ELSE [procs EXCEPT ![k] = me]
       IN  IF me.st = "zombie" /\ me.code = 143
           THEN /\ \E surv \in SUBSET {j \in 1 .. Len(ps) : ps[j].st = "running"} :
                       procs' = KillGroup(ps, surv)
                /\ Gone
                /\ cause' = "SIGTERM from exit"
           ELSE /\ procs' = ps
                /\ UNCHANGED <<pc, cwd, jl, held, waitTarget, ref, cause>>
    /\ UNCHANGED <<parent, parseVars>>

\* SIGINT is delivered to a forked copy of the shell that has not yet
\* called exit() or execvp(): its handler compares the inherited global
\* with its own pid
ChildSigint(k) ==
    /\ pc # "dead"
    /\ k \in 1 .. Len(procs)
    /\ procs[k].st = "forked"
    /\ HandlerExits(Pid(k), parent)
    /\ procs' = [procs EXCEPT ![k] = Exited(procs[k], procs[k].out, 0)]
    /\ UNCHANGED <<pc, parent, cwd, jl, held, waitTarget, cause, ref, parseVars>>

\* a program that ends takes its job out of the table when that job is the
\* first one
ProgExitReaped(k) ==
    /\ pc # "dead"
    /\ k \in 1 .. Len(procs)
    /\ procs[k].st = "running"
    /\ procs' = [procs EXCEPT ![k] = Exited(procs[k], procs[k].out, 0)]
    /\ IF jl.head # NIL /\ jl.heap[jl.head].pid = Pid(k)
       THEN /\ jl' = [head |-> jl.heap[jl.head].next,
                      heap |-> [jl.heap EXCEPT ![jl.head] = FreeNode]]
            /\ ref' = Tail(ref)
       ELSE UNCHANGED <<jl, ref>>
    /\ UNCHANGED <<pc, parent, cwd, held, waitTarget, cause, parseVars>>

\* an external program ends by itself
ProgExit(k) ==
    /\ pc # "dead"
    /\ k \in 1 .. Len(procs)
    /\ procs[k].st = "running"
    /\ procs' = [procs EXCEPT ![k] = Exited(procs[k], procs[k].out, 0)]
    /\ UNCHANGED <<pc, parent, cwd, jl, held, waitTarget, cause, ref, parseVars>>

\* an external program that is a child of the shell is stopped (SIGSTOP, or
\* a SIGTSTP it has reset); a stop of the left-hand program of a pipeline
\* is nothing the shell can observe
ProgStop(k) ==
    /\ pc # "dead"
    /\ k \in 1 .. Len(procs)
    /\ procs[k].role = "outer"
    /\ procs[k].st = "running"
    /\ procs' = [procs EXCEPT ![k].st = "stopped"]
    /\ UNCHANGED <<pc, parent, cwd, jl, held, waitTarget, cause, ref, parseVars>>

\* a stopped program is continued (SIGCONT)
ProgCont(k) ==
    /\ pc # "dead"
    /\ k \in 1 .. Len(procs)
    /\ procs[k].st \in {"stopped", "stoppedR"}
    /\ procs' = [procs EXCEPT ![k].st = "running"]
    /\ UNCHANGED <<pc, parent, cwd, jl, held, waitTarget, cause, ref, parseVars>>

\* ------------------------------------------------------------- the shell
Next ==
    \/ InstallHandler
    \/ IgnoreTstp
    \/ RecordParent
    \/ SigintShell
    \/ Eof
    \/ \E l \in ShellLines : \E in \in InputsFor(Parsed[l]) : UseLine(l, in)
    \/ WaitReturn
    \/ \E k \in 1 .. MaxProcs, in \in SysInputs : ChildRun(k, in)
    \/ \E k \in 1 .. MaxProcs : ChildSigint(k)
    \/ \E k \in 1 .. MaxProcs : ProgExit(k)
    \/ \E k \in 1 .. MaxProcs : ProgStop(k)
    \/ \E k \in 1 .. MaxProcs : ProgCont(k)

Spec == Init /\ [][Next]_vars

\* ------------------------------------------- one line, chosen freely
\* characters of a short line
MaxChars == 4

\* tokens of a line of single-spaced tokens
MaxToks == 6

\* the characters short lines are made of
Alphabet == {"a", " ", "\t", ">", "|", "&"}

\* every line of 1 .. MaxChars characters (getLine hands on no empty line)
CharLines == UNION {[1 .. n -> Alphabet] : n \in 1 .. MaxChars}

\* the tokens single-spaced lines are made of
TokSet == {W_a, W_b, <<">">>, <<"|">>}

\* every line of 1 .. MaxToks of them, one space between two
TokLines ==
    UNION {{Join(t, SP) : t \in [1 .. n -> TokSet]} : n \in 1 .. MaxToks}

\* n words: a b a b ...
Words(n) == [k \in 1 .. n |-> IF k % 2 = 1 THEN W_a ELSE W_b]

\* lines around the size of main's array: ARGS_SIZE - 1 .. ARGS_SIZE + 2
\* words, alone, before "| a" and before "&"
LongLines ==
    {Join(Words(n) \o t, SP) :
        n \in ARGS_SIZE - 1 .. ARGS_SIZE + 2,
        t \in {<< >>, <<<<"|">>, W_a>>, <<<<"&">>>>}}

\* "a > b" before ARGS_SIZE and ARGS_SIZE + 1 words
RedirLongLines ==
    {Join(<<W_a, <<">">>, W_b>> \o Words(n), SP) :
        n \in ARGS_SIZE .. ARGS_SIZE + 1}

\* lines that name a built-in the forked copy runs
BuiltInLines ==
    { T_echo,                                              \* echo
      Join(<<T_echo, W_a>>, SP),                           \* echo a
      Join(<<T_echo, <<">">>, <<"f">>>>, SP),              \* echo > f
      T_pwd,                                               \* pwd
      Join(<<T_pwd, W_a>>, SP),                            \* pwd a
      T_jobs,                                              \* jobs
      Join(<<T_cd, <<"d">>>>, SP),                         \* cd d
      T_fg,                                                \* fg
      T_exit }                                             \* exit

ParseLines ==
    CharLines \cup TokLines \cup LongLines \cup RedirLongLines \cup BuiltInLines

\* main's array one line later: the pointers getcmd stored now point into
\* a buffer of the past, the sentinels are still NULL
Aged(a) == [k \in DOMAIN a |-> IF a[k] = NULLP THEN NULLP ELSE STALE]

\* main's array as a call of getcmd can find it: never written, or as the
\* line "a b" left it
ArgsBefore == {StaleArgs, Aged(getcmd(Join(<<W_a, W_b>>, SP), StaleArgs).args)}

\* main is in its loop, getLine() has returned a line; nothing has been
\* forked yet
ParseInit ==
    /\ pc = "prompt"
    /\ parent = ShellPid
    /\ cwd = <<"/">>
    /\ jl = [head |-> NIL, heap |-> [n \in NodeIds |-> FreeNode]]
    /\ held = NIL
    /\ waitTarget = 0
    /\ procs = << >>
    /\ cause = ""
    /\ ref = << >>
    /\ pstage = "ready"
    /\ line \in ParseLines
    /\ args \in ArgsBefore
    /\ res = [ret |-> -1]

\* main calls getcmd(buffer, bufLen - 1, args, ...): res is what it returns
\* and leaves in the buffer and in the array, args the array as it was
Getcmd ==
    /\ pstage = "ready"
    /\ res' = getcmd(line, args)
    /\ pstage' = "parsed"
    /\ UNCHANGED <<pc, parent, cwd, jl, held, waitTarget, procs, cause, ref,
                   line, args>>

\* main hands the parsed line to useCommand(buffer, args, commandLength,
\* background, outputRedirection, cmdPipeIdx)
UseParsed(in) ==
    /\ pstage = "parsed"
    /\ pc = "prompt"
    /\ in \in InputsWithForkFor(res)
    /\ useCommand(res, in)
    /\ pstage' = "used"
    /\ UNCHANGED <<parent, cause, line, args, res>>

ParseNext ==
    \/ Getcmd
    \/ \E in \in ShellInputs : UseParsed(in)
    \/ \E k \in 1 .. MaxProcs, in \in SysInputs : ChildRun(k, in)
    \/ \E k \in 1 .. MaxProcs : ProgExit(k)
    \/ WaitReturn

ParseSpec == ParseInit /\ [][ParseNext]_vars

\* ------------------------------------------------------------- job table
\* the entries of the list that starts at cur, in list order
RECURSIVE ListOf(_, _)
ListOf(heap, cur) ==
    IF cur = NIL THEN << >>
    ELSE <<[name |-> heap[cur].name, pid |-> heap[cur].pid]>>
         \o ListOf(heap, heap[cur].next)

\* the Job Table as a sequence of entries
Table == ListOf(jl.heap, jl.head)

\* the first token of a line that launches
FirstTok(l) == ArgvFrom(Parsed[l].buf, Parsed[l].args, 0)[1]

\* the tokens after it
Params(l) == Tail(ArgvFrom(Parsed[l].buf, Parsed[l].args, 0))

LaunchLines == {l \in ShellLines : Launches(Parsed[l])}

CdLines == {l \in LaunchLines : FirstTok(l) = T_cd}

FgLines == {l \in LaunchLines : FirstTok(l) = T_fg}

OtherLines == LaunchLines \ (CdLines \cup FgLines)

\* the process with pid p
ProcOf(p) == p - ShellPid

\* ---------------------------------------------------------------- C1
\* Handling a line of OtherLines forks one child; with background set the
\* shell is back at the prompt and the table is the old table with one
\* entry for that child appended; without it the shell goes into the wait
\* for that child and the table is the same.
LaunchStep ==
    pc = "prompt" /\ Len(procs') = Len(procs) + 1 =>
    \A l \in OtherLines : \A in \in InputsFor(Parsed[l]) :
        UseLine(l, in) =>
            LET child == Pid(Len(procs) + 1) IN
            /\ procs'[Len(procs')].role = "outer"
            /\ IF Parsed[l].background
               THEN /\ pc' = "prompt"
                    /\ Table' = Append(Table, [name |-> Parsed[l].buf, pid |-> child])
               ELSE /\ pc' = "wait"
                    /\ waitTarget' = child
                    /\ jl' = jl

\* The wait of a foreground launch gives the prompt back only when the
\* child it waits for has exited or stopped, and leaves the table alone.
ForegroundReturn ==
    pc = "wait" /\ pc' = "prompt" =>
        /\ procs[ProcOf(waitTarget)].st \in {"zombie", "stopped"}
        /\ jl' = jl

\* C1: a line of 1..30 tokens that starts with neither cd nor fg, run in
\* the background, is not waited for and adds exactly one entry with the
\* child's pid at the tail of the Job Table; run in the foreground, it makes
\* the shell block until that child changes state, with the table unchanged.
C1_BackgroundAppendsForegroundWaits == [][LaunchStep /\ ForegroundReturn]_vars

\* a foreground launch is waiting while an earlier background launch sits in
\* the table behind another one
C1_Witness ==
    /\ pc = "wait"
    /\ Len(Table) = 2
    /\ Table[1].pid = Pid(1) /\ Table[2].pid = Pid(2)
    /\ waitTarget = Pid(3)

\* ---------------------------------------------------------------- C2
\* The list read from its head is the reference sequence, and jobs prints
\* the reference sequence numbered from 1.
TableIsRef ==
    /\ Table = ref
    /\ JobsLines(jl.heap, jl.head, 1)
         = [k \in 1 .. Len(ref) |-> [index |-> k, name |-> CStr(ref[k].name, 0)]]

\* A removal hands fg the entry that was k-th in the reference sequence.
RemoveStep ==
    pc = "prompt" /\ held' # NIL =>
    \A l \in FgLines : \A in \in InputsFor(Parsed[l]) :
        UseLine(l, in) /\ held' # NIL =>
            LET k == FgIndex(Params(l)) IN
            /\ k \in 1 .. Len(ref)
            /\ [name |-> jl.heap[held'].name, pid |-> jl.heap[held'].pid] = ref[k]
            /\ Table' = RemoveAt(ref, k)

RECURSIVE DecimalValue(_)
DecimalValue(d) ==
    IF d = << >> THEN 0
    ELSE 10 * DecimalValue(SubSeq(d, 1, Len(d) - 1)) + DigitVal(d[Len(d)])

\* The position the fg line l names is beyond a table of n entries: the
\* default position 1 in an empty table, or a decimal numeral whose value is
\* above n (a numeral of 10 digits or more is above every table of the model)
NamesAbsentPosition(l, n) ==
    LET p == Params(l) IN
    IF p = << >> THEN n = 0
    ELSE /\ Len(p) = 1
         /\ \A k \in 1 .. Len(p[1]) : DigitVal(p[1][k]) >= 0
         /\ p[1][1] # "0"
         /\ (Len(p[1]) >= 10 \/ DecimalValue(p[1]) > n)

\* the messages fg has for an index that names no job
IndexErrors == {"fg given invalid index", "fg only accepts positive indexes"}

FgAbsentStep ==
    pc = "prompt" /\ Len(procs') = Len(procs) + 1 =>
    \A l \in FgLines : \A in \in InputsFor(Parsed[l]) :
        UseLine(l, in) /\ NamesAbsentPosition(l, Len(Table)) =>
            /\ fg(Params(l), jl).msg \in IndexErrors
            /\ pc' = "prompt"
            /\ jl' = jl

\* C3: an fg whose index names a position the Job Table does not have (a
\* number above the table's length, any index with an empty table) reports
\* an invalid index, waits for nothing and leaves the table as it was.
C3_AbsentIndexIsRefused == [][FgAbsentStep]_vars

\* ---------------------------------------------------------------- C4
\* The position the fg line l names is one of the n the table has: k
NamesPosition(l, k, n) ==
    LET p == Params(l) IN
    /\ k \in 1 .. n
    /\ IF p = << >> THEN k = 1
       ELSE /\ Len(p) = 1
            /\ \A j \in 1 .. Len(p[1]) : DigitVal(p[1][j]) >= 0
            /\ Len(p[1]) < 10
            /\ DecimalValue(p[1]) = k

\* fg k takes the k-th entry out of the table and goes into the wait for
\* that entry's pid
FgStep ==
    pc = "prompt" /\ Len(procs') = Len(procs) + 1 =>
    \A l \in FgLines : \A in \in InputsFor(Parsed[l]) :
        \A k \in 1 .. Len(Table) :
            UseLine(l, in) /\ NamesPosition(l, k, Len(Table)) =>
                /\ pc' = "fgwait"
                /\ Table' = RemoveAt(Table, k)
                /\ waitTarget' = Table[k].pid

\* the wait of fg gives the prompt back only when the process it waits for
\* has exited or stopped; the table is what fg left
FgReturn ==
    pc = "fgwait" /\ pc' = "prompt" =>
        /\ procs[ProcOf(waitTarget)].st \in {"zombie", "stopped"}
        /\ Table' = Table

\* fg on the only job has returned: the process has terminated and jobs
\* prints nothing
FgReturnTerminated ==
    pc = "fgwait" /\ pc' = "prompt" /\ Table = << >> =>
        /\ procs'[ProcOf(waitTarget)].st = "reaped"
        /\ jobs(jl', << >>).out = << >>

\* the same, the process having terminated or been stopped
FgReturnTerminatedOrStopped ==
    pc = "fgwait" /\ pc' = "prompt" /\ Table = << >> =>
        /\ procs'[ProcOf(waitTarget)].st \in {"reaped", "stoppedR"}
        /\ jobs(jl', << >>).out = << >>

\* C4 as claimed: fg k with 1 <= k <= length (k = 1 by default) removes
\* exactly the k-th job, blocks until that job's pid changes state and only
\* then returns; with one tracked job, after fg 1 returns the process has
\* terminated and jobs lists nothing.
C4_FgWaitsUntilTerminated == [][FgStep /\ FgReturn /\ FgReturnTerminated]_vars

\* C4: fg k with 1 <= k <= length (k = 1 by default) removes exactly the
\* k-th job, blocks until that job's process has exited or stopped and only
\* then returns; with one tracked job, after fg 1 returns the process has
\* terminated or is stopped and jobs lists nothing.
C4_FgWaitsUntilExitedOrStopped ==
    [][FgStep /\ FgReturn /\ FgReturnTerminatedOrStopped]_vars

\* fg has removed the only job and its wait is about to return because the
\* job's process is stopped, not ended
C4_Witness ==
    /\ pc = "fgwait"
    /\ Table = << >>
    /\ procs[ProcOf(waitTarget)].st = "stopped"

\* ---------------------------------------------------------------- C5
CdStep ==
    pc = "prompt" =>
    \A l \in CdLines : \A in \in InputsFor(Parsed[l]) :
        UseLine(l, in) =>
            /\ procs' = procs
            /\ cwd' = cd(Params(l), cwd, in.chdir).cwd

\* C5: handling a line whose first token is cd never forks: no process is
\* created and the change of directory is made in the shell process.
C5_CdNeverForks == [][CdStep]_vars

\* ---------------------------------------------------------------- C6
\* C6: in a pipeline with a redirect target the file takes the output of
\* the right-hand command only: the left-hand command, when it is
\* dispatched, writes to the pipe and never to the file.
C6_LeftCommandWritesToPipe ==
    \A k \in 1 .. Len(procs) :
        procs[k].role = "left" /\ procs[k].st = "running" => procs[k].out = "pipe"

\* ---------------------------------------------------------------- C7
\* C7: the interactive shell ends only through exit or the end of the
\* input: once the handler is installed a SIGINT delivered to the shell
\* (before parent is set, during a wait, during fg) has no effect on it.
C7_ShellEndsOnlyByExitOrEof ==
    pc = "dead" =>
        cause \in {"end of input", "SIGTERM from exit", "SIGINT, default disposition"}

\* ------------------------------------------------- the grammar of a line
\* The tokens of a line as the grammar has them: the maximal runs of
\* characters that are neither a space nor a tab, in order.
RECURSIVE GrammarTokens(_)
GrammarTokens(s) ==
    IF s = << >> THEN << >>
    ELSE IF s[1] \in {" ", "\t"} THEN GrammarTokens(Tail(s))
    ELSE LET n == CHOOSE n \in 1 .. Len(s) :
                      /\ \A k \in 1 .. n : s[k] \notin {" ", "\t"}
                      /\ n = Len(s) \/ s[n + 1] \in {" ", "\t"}
         IN  <<SubSeq(s, 1, n)>> \o GrammarTokens(SubSeq(s, n + 1, Len(s)))

\* the line has none of the characters & > |
Plain(s) == \A k \in 1 .. Len(s) : s[k] \notin {"&", ">", "|"}

\* the line is its tokens with one space between two, and has no &
SingleSpaced(s) ==
    /\ s # << >> /\ s[1] # " " /\ s[Len(s)] # " "
    /\ \A k \in 1 .. Len(s) : s[k] \notin {"\t", "&"}
    /\ \A k \in 1 .. Len(s) - 1 : ~(s[k] = " " /\ s[k + 1] = " ")

\* The parse of a token sequence t as the grammar describes it, continued
\* from st: a word is appended to argv; > takes the next token as target
\* and drops the one after it; | is accepted when argv is not empty and no
\* | was accepted before, and then argv gets a sentinel (the empty sequence
\* here) and pipeSplit the index of the slot after it.
RECURSIVE GrammarParse(_, _)
GrammarParse(t, st) ==
    IF t = << >> THEN st
    ELSE IF t[1] = <<">">>
    THEN IF Len(t) >= 2
         THEN GrammarParse(SubSeq(t, 4, Len(t)), [st EXCEPT !.redir = <<"to">> \o t[2]])
         ELSE GrammarParse(<< >>, st)
    ELSE IF t[1] = <<"|">>
    THEN IF st.argv = << >> \/ st.pipe > 0
         THEN GrammarParse(Tail(t), [st EXCEPT !.pipeErrs = @ + 1])
         ELSE GrammarParse(Tail(t), [st EXCEPT !.argv = Append(@, << >>),
                                               !.pipe = Len(st.argv) + 1])
    ELSE GrammarParse(Tail(t), [st EXCEPT !.argv = Append(@, t[1])])

GrammarOf(s) ==
    GrammarParse(GrammarTokens(s),
                 [argv |-> << >>, redir |-> NoRedir, pipe |-> -1, pipeErrs |-> 0])

\* the slots 0 .. ret - 1 of the array getcmd has filled, a sentinel read
\* as the empty sequence
ArgvSlots(r) ==
    [k \in 1 .. r.ret |->
        IF r.args[k - 1] = NULLP THEN << >> ELSE CStr(r.buf, r.args[k - 1])]

\* how often getcmd has printed the message m
Complaints(r, m) == Cardinality({k \in 1 .. Len(r.errs) : r.errs[k] = m})

\* ---------------------------------------------------------------- C8
\* C8: for a line of at most 30 tokens separated by runs of spaces and tabs
\* and holding no & > |, getcmd returns the number of tokens and leaves
\* exactly those tokens in args, in order, followed by the sentinel, with
\* background false, no redirect target and no pipe split.
C8_PlainLineIsItsTokens ==
    pstage = "parsed" /\ Plain(line) /\ Len(GrammarTokens(line)) <= ARGS_SIZE =>
        LET t == GrammarTokens(line) IN
        /\ res.ret = Len(t)
        /\ \A k \in 1 .. Len(t) :
              res.args[k - 1] >= 0 /\ CStr(res.buf, res.args[k - 1]) = t[k]
        /\ res.args[Len(t)] = NULLP
        /\ ~res.background
        /\ res.outputRedirection = NULLP
        /\ res.cmdPipeIndex = -1

\* ---------------------------------------------------------------- C9
\* C9: at a > token getcmd takes exactly the next token as the redirect
\* target and drops exactly one token more; every token after the dropped
\* one is parsed as usual (stated for single-spaced lines of at most 30
\* tokens without | and &).
C9_RedirectDropsOneToken ==
    /\ pstage = "parsed" /\ SingleSpaced(line)
    /\ Len(GrammarTokens(line)) <= ARGS_SIZE
    /\ <<">">> \in {GrammarTokens(line)[k] : k \in 1 .. Len(GrammarTokens(line))}
    /\ <<"|">> \notin {GrammarTokens(line)[k] : k \in 1 .. Len(GrammarTokens(line))}
    => LET g == GrammarOf(line) IN
       /\ RedirOf(res) = g.redir
       /\ res.ret = Len(g.argv)
       /\ ArgvSlots(res) = g.argv

\* ---------------------------------------------------------------- C10
\* C10: a | token is accepted iff a token precedes it and no | was accepted
\* before it in the line; an accepted | ends argv with a sentinel there and
\* sets pipeSplit to the index of the first token of the second command
\* ("a | b" gives [a] and [b]); a leading | and a second | are reported as
\* parse errors and leave pipeSplit as it is (stated for single-spaced
\* lines of at most 30 tokens without &).
C10_PipeAcceptedOnce ==
    /\ pstage = "parsed" /\ SingleSpaced(line)
    /\ Len(GrammarTokens(line)) <= ARGS_SIZE
    /\ <<"|">> \in {GrammarTokens(line)[k] : k \in 1 .. Len(GrammarTokens(line))}
    => LET g == GrammarOf(line) IN
       /\ res.cmdPipeIndex = g.pipe
       /\ Complaints(res, "Error parsing '|'") = g.pipeErrs
       /\ res.ret = Len(g.argv)
       /\ ArgvSlots(res) = g.argv

\* ---------------------------------------------------------------- C11
\* position of the last character of s that is neither a space nor a tab
\* (0: there is none)
LastMark(s) ==
    IF \A k \in 1 .. Len(s) : s[k] \in {" ", "\t"} THEN 0
    ELSE CHOOSE k \in 1 .. Len(s) :
            /\ s[k] \notin {" ", "\t"}
            /\ \A j \in k + 1 .. Len(s) : s[j] \in {" ", "\t"}

\* the line ends, trailing spaces aside, with &
TrailingAmp(s) == LastMark(s) > 0 /\ s[LastMark(s)] = "&"

\* the line without its trailing &
Body(s) == IF TrailingAmp(s) THEN SubSeq(s, 1, LastMark(s) - 1) ELSE s

\* the argv the grammar gives the line (a sentinel of an accepted | counted)
LineTokens(s) == GrammarOf(Body(s)).argv

\* C11: for a line of 31 or more tokens the overflow is reported, and for a
\* line with a trailing & and zero tokens the empty background command is
\* reported; in both cases no process is forked and the job table is
\* unchanged (stated for lines with no & other than a trailing one).
C11_OverflowAndEmptyBackgroundLaunchNothing ==
    pstage = "used" /\ (\A k \in 1 .. Len(Body(line)) : Body(line)[k] # "&") =>
        /\ Len(LineTokens(line)) > ARGS_SIZE =>
              /\ UseMsg(res) = "Arguments exceeded max size"
              /\ procs = << >> /\ Table = << >>
        /\ TrailingAmp(line) /\ LineTokens(line) = << >> =>
              /\ UseMsg(res) = "Command cannot run in background with no arguments"
              /\ procs = << >> /\ Table = << >>

\* ---------------------------------------------------------------- C12
\* the step on which a forked copy of the shell runs the exit built-in
ExitStep == cause # "SIGTERM from exit" /\ cause' = "SIGTERM from exit"

EndsAsCopy(k) ==
    /\ procs[k].st = "forked" /\ procs'[k].st = "zombie"
    /\ cause' = cause

\* C13: a forked copy that does not become an external program ends with
\* status 0 or 127: 0 when its first token is a built-in and no redirect
\* failed, 127 when execvp, the open of the redirect file or the dup2
\* failed, and never with 0 otherwise; the shell process goes on (stated
\* for every built-in but exit, whose signal ends the group).
C13_CopyEndsWithZeroOr127 ==
    [][\A k \in 1 .. Len(procs) :
          EndsAsCopy(k) =>
              LET c == procs[k].cmd
                  builtIn == c.argv # << >> /\ IsBuiltInName(c.argv[1])
              IN  /\ procs'[k].code \in {0, 127}
                  /\ builtIn /\ c.redir = NoRedir => procs'[k].code = 0
                  /\ ~builtIn => procs'[k].code = 127
                  /\ pc' = pc]_vars

\* ---------------------------------------------------------------- C14
\* What has become of the buffer getLine() returned for the line: main and
\* getcmd never free it; useCommand frees it after the waitpid of a
\* foreground command and hands it to addNode for a background command, and
\* does neither on its other paths (no fork, cd, fg).
LineBuffer ==
    IF pstage # "used" \/ ~Launches(res) THEN "allocated"
    ELSE IF ArgvFrom(res.buf, res.args, 0)[1] \in {T_cd, T_fg} THEN "allocated"
    ELSE IF res.background THEN "owned"
    ELSE IF pc = "wait" THEN "allocated"
    ELSE "released"

\* the jobs of the table whose name is the buffer of the line
Owners == {k \in 1 .. Len(Table) : Table[k].name = res.buf}

\* C14: once the shell has finished handling a line, the line's buffer is
\* either owned by exactly one job of the table (iff the command was put in
\* the background) or released; it is never left allocated and unowned.
C14_BufferOwnedOrReleased ==
    pstage = "used" /\ pc = "prompt" =>
        /\ LineBuffer \in {"owned", "released"}
        /\ LineBuffer = "owned" <=> res.background
        /\ LineBuffer = "owned" => Cardinality(Owners) = 1

\* ---------------------------------------------------------------- C15
\* the name jobs prints for the last job of the table
ShownName == jobs(jl, << >>).out[Len(Table)].name

\* C15: the name stored for a background job, and shown by jobs, is the
\* text of the line that launched it, with all of its tokens (the trailing
\* & counted or not).
C15_JobNameIsWholeLine ==
    pstage = "used" /\ Table # << >> =>
        /\ Table[Len(Table)].name = res.buf
        /\ GrammarTokens(ShownName) \in
              {GrammarTokens(line), GrammarTokens(Body(line))}

\* ---------------------------------------------------------------- C16
\* the number of leading slots of the array that hold a token of this line
RECURSIVE Stored(_, _)
Stored(a, k) ==
    IF k > ARGS_SIZE + 1 \/ a[k] < 0 THEN k ELSE Stored(a, k + 1)

\* the slot in which the sentinel of the returned argv has to be
SentinelSlot(r) == IF r.ret <= ARGS_SIZE + 1 THEN r.ret ELSE Stored(r.args, 0)

\* C16: on every return path of getcmd (the zero-token return and the
\* overflow return included) the tokens left in args are followed by the
\* sentinel, and pipeSplit is -1 unless a | was accepted, in which case it
\* is the index after the sentinel written for that |.
C16_ArgvAlwaysTerminated ==
    pstage = "parsed" =>
        /\ SentinelSlot(res) <= ARGS_SIZE + 1
        /\ res.args[SentinelSlot(res)] = NULLP
        /\ (\A k \in 1 .. Len(line) : line[k] # "|") => res.cmdPipeIndex = -1
        /\ res.cmdPipeIndex # -1 =>
              res.cmdPipeIndex >= 2 /\ res.args[res.cmdPipeIndex - 1] = NULLP

\* ---------------------------------------------------------------- C17
\* a step of the running shell that changes the table is a background
\* launch that appends one job or an fg that removes the job at its index
TableChangeStep ==
    pc' # "dead" /\ jl' # jl /\ Table' # Table =>
        \/ \E l \in OtherLines : \E in \in InputsFor(Parsed[l]) :
              /\ UseLine(l, in)
              /\ Parsed[l].background
              /\ Len(Table') = Len(Table) + 1
              /\ SubSeq(Table', 1, Len(Table)) = Table
        \/ \E l \in FgLines : \E in \in InputsFor(Parsed[l]) :
              /\ UseLine(l, in)
              /\ pc' = "fgwait"
              /\ FgIndex(Params(l)) \in 1 .. Len(Table)
              /\ Table' = RemoveAt(Table, FgIndex(Params(l)))

\* C17: there is no automatic reaping: the table is changed only by a
\* background launch (append) and by a successful fg (remove); a job whose
\* process has exited stays in the table, at its position, until an fg
\* names it.
C17_NoAutomaticReaping == [][TableChangeStep]_vars

\* the shell is at the prompt with a job in the table whose process has
\* already exited, behind a job whose process has not
C17_Witness ==
    /\ pc = "prompt" /\ Len(Table) = 2
    /\ procs[ProcOf(Table[1].pid)].st = "running"
    /\ procs[ProcOf(Table[2].pid)].st = "zombie"

\* ---------------------------------------------------------------- C18
\* the shell, handling a line, forks a child on this step
ShellForks ==
    /\ pc = "prompt"
    /\ Len(procs') = Len(procs) + 1
    /\ procs'[Len(procs')].role = "outer"

\* C18: every child the shell forks while handling a line is tracked: the
\* shell waits for it before it is back at the prompt, or the child is
\* registered in the job table, whatever the first token of the line and
\* with or without &.
C18_EveryChildTracked ==
    [][ShellForks =>
          LET child == Pid(Len(procs')) IN
          \/ pc' = "wait" /\ waitTarget' = child
          \/ \E j \in 1 .. Len(Table') : Table'[j].pid = child]_vars

\* ---------------------------------------------------------------- C19
\* the forked copy k gets as far as isBuiltIn(*args, args + 1) on this step
Dispatches(k) ==
    \E in \in SysInputs : in.open /\ in.dup /\ ChildRun(k, in)

\* C19: whenever a command is dispatched, directly or as the left or the
\* right stage of a pipeline, its argv has a first token; a line whose
\* accepted | is followed by no token ("a |") causes no dispatch on an
\* empty right-hand argv.
C19_DispatchedArgvHasFirstToken ==
    [][\A k \in 1 .. Len(procs) :
          Dispatches(k) =>
              /\ procs[k].cmd.argv # << >>
              /\ procs[k].cmd.pipe => procs[k].cmd.left # << >>]_vars

\* ---------------------------------------------------------------- C20
\* the processes that have the read end, the write end of pipe p open
ReadHolders(p) == {j \in 1 .. Len(procs) : procs[j].rd = p}

WriteHolders(p) == {j \in 1 .. Len(procs) : procs[j].wr = p}

\* C20: once both stages of a pipeline are running, the read end of the
\* pipe is open in the right-hand process only and the write end in the
\* left-hand process only.
C20_PipeEndsHeldByOneStageEach ==
    \A l \in 1 .. Len(procs) :
        /\ procs[l].role = "left" /\ procs[l].st = "running"
        /\ procs[l].wr # 0 /\ procs[procs[l].wr].st = "running"
        => /\ ReadHolders(procs[l].wr) = {procs[l].wr}
           /\ WriteHolders(procs[l].wr) = {l}

\* ---------------------------------------------------------------- C21
\* every pid in the table is the pid of a child the shell has forked, and
\* no two entries have the same pid
TablePidsAreChildren ==
    /\ \A j \in 1 .. Len(Table) :
          \E k \in 1 .. Len(procs) :
              procs[k].role = "outer" /\ Table[j].pid = Pid(k)
    /\ \A i, j \in 1 .. Len(Table) : Table[i].pid = Table[j].pid => i = j

\* useCommand handles a line for which fork() fails: it registers no job
\* and calls no waitpid
ForkFailStep ==
    pstage = "parsed" /\ pstage' = "used" /\ Launches(res) /\ procs' = procs =>
        /\ Table' = Table
        /\ pc' # "wait"

\* C21: every pid stored in the job table is the pid of a child created by
\* a successful fork, and no two entries share a pid; when fork fails the
\* shell registers no job and waits on no child.
C21_JobPidsAreForkedChildren == []TablePidsAreChildren /\ [][ForkFailStep]_vars

\* ---------------------------------------------------------------- C22
\* the positions of the > tokens among the tokens t
RedirMarks(t) == {k \in 1 .. Len(t) : t[k] = <<">">>}

\* C22: a redirect target the parser sets is a non-empty token; for a line
\* with one > that has a token after it, whatever run of spaces and tabs
\* lies between the two and whatever follows (blanks, a trailing &), the
\* target is that token (stated for lines with no & other than a trailing
\* one).
C22_RedirectTargetIsNextToken ==
    pstage = "parsed" /\ (\A k \in 1 .. Len(Body(line)) : Body(line)[k] # "&") =>
        LET t == GrammarTokens(Body(line)) IN
        /\ res.outputRedirection # NULLP =>
              CStr(res.buf, res.outputRedirection) # << >>
        /\ \A k \in RedirMarks(t) :
              RedirMarks(t) = {k} /\ k < Len(t) =>
                  RedirOf(res) = <<"to">> \o t[k + 1]

\* ---------------------------------------------------------------- C23
\* C23: getcmd writes to the slots 0 .. 30 of args only, the final sentinel
\* and the sentinel of an accepted | included: the word behind the array
\* (index 31) is after the call what it was before, also for a line of
\* exactly 31 tokens and for one of 30 tokens and a |.
C23_NoWriteBehindArray ==
    pstage = "parsed" => res.args[ARGS_SIZE + 1] = args[ARGS_SIZE + 1]

====
